---- MODULE Spec2Model ----
(***************************************************************************)
(* Speech-to-text session nodes of natural-kit: OpenAISttNode,             *)
(* OpenAIStreamingSttNode, AzureSttNode and WebSttNode, and the            *)
(* server-sent-event parse loop of transcribeOpenAIStreaming.              *)
(*                                                                         *)
(* One node instance is modelled; `node` says which class it is.  Each     *)
(* async method is cut at its await points: the part of a method between   *)
(* two awaits is one action.  Continuations of awaits on settled promises  *)
(* wait in the microtask queue `microQ` and run in FIFO order; the host    *)
(* may call start(), stop() and abort() at any point; browser tasks        *)
(* (getUserMedia settling, recorder events, network replies) run only      *)
(* when the microtask queue is empty.  A network reply and the promise     *)
(* reactions that follow it run in one action.                             *)
(***************************************************************************)
EXTENDS Integers, Sequences, FiniteSets, TLC

\* ---------------------------------------------------------------- bounds
MaxStarts == 2      \* start() calls that begin a cycle or make a promise
MaxStops == 1       \* stop() calls suspended at the same time
MaxDeltas == 1      \* delta frames forwarded by the streaming node
MaxResults == 2     \* result events delivered by the speech recognizer
MaxLines == 2       \* lines of a streamed response
MaxReads == 3       \* network reads a streamed response arrives in
MaxSamples == 2     \* audio samples the microphone delivers

\* ------------------------------------------------------------- vocabulary
OpenAINodes == {"openai", "streaming"}
NetworkNodes == {"openai", "streaming", "azure"}
Nodes == NetworkNodes \cup {"web"}
AudioNodes == {"streaming", "azure"}
Texts == {"", "t"}

VARIABLES
    node,             \* class of the instance
    hasKey,           \* settings-node holds the credential the class needs
    isStarted,        \* this.isStarted
    isMicStarted,     \* this.isMicStarted / this.isMicrophoneStarted
    micPromise,       \* this.mediaRecorderResolvers / mediaRecorderAsync: "pending" | "resolved"
    recState,         \* MediaRecorder.state of the cached recorder
    abortController,  \* this.abortController: 0 is null, else the start() call that created it
    aborted,          \* controllers whose signal is aborted
    pendingResult,    \* this.transcriptionPromiseAPI: 0 is null, else the start() call that created it
    calls,            \* one record per start() call that got past the isStarted check
    microQ,           \* continuations ready to run, in order
    waiters,          \* continuations awaiting the recorder promise, in order
    stopEvents,       \* recorder "stop" events queued and not yet delivered
    wired,            \* request whose audio stream recorder.onstop closes, 0 before any
    requests,         \* one record per fetch issued
    events,           \* events[c]: CustomEvents dispatched for start() call c
                      \* (WebSttNode: for utterance c), in order
    continuous,       \* this.recognition.continuous
    recog,            \* the platform recognizer: "idle" | "running" | "stopping" |
                      \* "aborting" | "errored"
    uttOpen,          \* the recognizer is in the middle of an utterance
    restart,          \* since the last recognizer error with continuous set: the
                      \* initSession() and recognition.start() calls the callbacks
                      \* made, and whether the recognizer's "end" is still to come
    \* the audio path of the network nodes
    audio,            \* audio[k]: the request that was recording when sample k was taken
    sliceFrom,        \* first sample the recorder has not yet put in a chunk
    stopData,         \* the last chunk of each queued recorder "stop", oldest first
    audioQ,           \* audioQ[r]: chunks in the audio stream of request r, not yet read
    body,             \* body[r]: what was enqueued to the request body of r, in order
    pump,             \* body[r]'s start(): "piping" | "closed" | "failed"
    \* transcribeOpenAIStreaming, server-sent-event parse loop
    frames,           \* the lines the server sends, by kind
    response,         \* the characters of the response body
    pos,              \* characters handed out by reader.read() so far
    cuts,             \* positions at which a read ended
    buffer,           \* `buffer`
    deltas,           \* arguments of the onDelta calls, in order
    finalText,        \* `finalText`
    returned          \* the read loop has ended and finalText was returned

vars == <<node, hasKey, isStarted, isMicStarted, micPromise, recState,
          abortController, aborted, pendingResult, calls, microQ, waiters,
          stopEvents, wired, requests, events, continuous, recog, uttOpen,
          restart, audio, sliceFrom, stopData, audioQ, body, pump,
          frames, response, pos, cuts, buffer, deltas, finalText, returned>>

sessionVars == <<node, hasKey, isStarted, isMicStarted, micPromise, recState,
                 abortController, aborted, pendingResult, calls, microQ, waiters,
                 stopEvents, wired, requests, events, continuous, recog, uttOpen,
                 restart>>

recorderVars == <<audio, sliceFrom, stopData>>

pipeVars == <<audioQ, body, pump>>

parserVars == <<frames, response, pos, cuts, buffer, deltas, finalText, returned>>

\* A start() call: where it is suspended, its getUserMedia call, whether it
\* was made since the last stop()/abort() call, how it ended for its caller,
\* and the promise it handed out.
NewCall(pc, gum, result, promise) ==
    [pc |-> pc, gum |-> gum, cur |-> TRUE, result |-> result,
     promise |-> promise, value |-> ""]

\* A fetch: the start() call and the AbortController it was issued with, how it
\* ended, whether its audio stream is closed, and whether abort() was called
\* on the started session while it was pending ("recording" | "stopped": the
\* recorder's state at that abort())
NewRequest(call, ctrl) ==
    [call |-> call, ctrl |-> ctrl, status |-> "pending", audioClosed |-> FALSE,
     cancelled |-> "no"]

\* a continuation: k is the code it resumes, c the start() call (for the piping
\* loop: the request) it belongs to
Cont(k, c) == [k |-> k, c |-> c]

\* `await p` on the recorder promise: ready at once when p is resolved
AwaitRecorder(q, k, c) ==
    IF micPromise = "resolved" THEN Append(q, Cont(k, c)) ELSE q
AwaitRecorderW(w, k, c) ==
    IF micPromise = "resolved" THEN w ELSE Append(w, Cont(k, c))

\* a stop() or abort() call closes the window "no stop()/abort() in between"
ClearCur(s) == [i \in DOMAIN s |-> [s[i] EXCEPT !.cur = FALSE]]

\* this.transcription$.subscribe(...) of connectedCallback: one final event per value
Emit(evs, text, cycle) ==
    [evs EXCEPT ![cycle] = Append(@, [text |-> text, isFinal |-> TRUE])]

\* What is enqueued to a request body: the header of a form field, one byte of
\* audio (a sample), or the closing boundary
Field(name) == [part |-> "field", name |-> name, sample |-> 0]
AudioByte(k) == [part |-> "audio", name |-> "", sample |-> k]
Closing == [part |-> "closing", name |-> "", sample |-> 0]

\* `preamble` / `formDataParts`: the static fields, then the header of the file part
Preamble(kind) ==
    CASE kind = "openai"    -> <<Field("model"), Field("file")>>
      [] kind = "streaming" -> <<Field("model"), Field("stream"), Field("file")>>
      [] OTHER              -> <<Field("definition"), Field("audio")>>

\* `epilogue`
Epilogue == <<Closing>>

\* new Uint8Array(await value.arrayBuffer()): a chunk holds the samples lo..hi
Bytes(chunk) == [k \in 1..(chunk.hi - chunk.lo + 1) |-> AudioByte(chunk.lo + k - 1)]

\* no recognizer error is being recovered from
NoRestart == [inits |-> 0, starts |-> 0, open |-> FALSE]

\* the node after construction and connectedCallback
NodeInit(kinds) ==
    /\ node \in kinds
    /\ hasKey \in (IF node = "web" THEN {TRUE} ELSE BOOLEAN)
    /\ isStarted = FALSE
    /\ isMicStarted = FALSE
    /\ micPromise = "pending"
    /\ recState = "inactive"
    /\ abortController = 0
    /\ aborted = {}
    /\ pendingResult = 0
    /\ calls = <<>>
    /\ microQ = <<>>
    /\ waiters = <<>>
    /\ stopEvents = 0
    /\ wired = 0
    /\ requests = <<>>
    /\ events = <<>>
    /\ continuous = FALSE
    /\ recog = "idle"
    /\ uttOpen = FALSE
    /\ restart = NoRestart
    /\ audio = <<>>
    /\ sliceFrom = 1
    /\ stopData = <<>>
    /\ audioQ = <<>>
    /\ body = <<>>
    /\ pump = <<>>

\* the parse loop before the response: `let finalText = ""`, `let buffer = ""`
ParserStart(fs, resp) ==
    /\ frames = fs
    /\ response = resp
    /\ pos = 0
    /\ cuts = {}
    /\ buffer = <<>>
    /\ deltas = <<>>
    /\ finalText = <<>>
    /\ returned = FALSE

Init == NodeInit(Nodes) /\ ParserStart(<<>>, <<>>)

\* ------------------------------------------- OpenAISttNode / OpenAIStreamingSttNode
\* start() up to `await this.startMicrophone()`; a call that returns at
\* `if (this.isStarted) return` leaves no record
Start ==
    /\ node \in OpenAINodes
    /\ ~isStarted => Len(calls) < MaxStarts
    /\ IF isStarted
       THEN UNCHANGED <<calls, microQ, events>>
       ELSE IF isMicStarted
       THEN /\ calls' = Append(calls, NewCall("micDone", "none", "pending", "none"))
            /\ microQ' = Append(microQ, Cont("afterMic", Len(calls) + 1))
            /\ events' = Append(events, <<>>)
       ELSE /\ calls' = Append(calls, NewCall("mic", "pending", "pending", "none"))
            /\ events' = Append(events, <<>>)
            /\ UNCHANGED microQ
    /\ UNCHANGED <<parserVars, recorderVars, pipeVars, node, hasKey, continuous, recog, uttOpen, restart, isStarted, isMicStarted, micPromise, recState,
                   abortController, aborted, pendingResult, waiters,
                   stopEvents, wired, requests>>

\* navigator.mediaDevices.getUserMedia resolves: rest of startMicrophone().
\* Resolving the recorder promise readies its waiters; the OpenAI start()
\* that awaited startMicrophone() is readied after them.
GumResolve(i) ==
    /\ microQ = <<>>
    /\ calls[i].gum = "pending"
    /\ micPromise' = "resolved"
    /\ isMicStarted' = TRUE
    /\ calls' = [calls EXCEPT ![i].gum = "ok",
                              ![i].pc = IF node \in OpenAINodes THEN "micDone" ELSE @]
    /\ microQ' = IF node \in OpenAINodes
                 THEN Append(waiters, Cont("afterMic", i))
                 ELSE waiters
    /\ waiters' = <<>>
    /\ UNCHANGED <<parserVars, recorderVars, pipeVars, node, hasKey, continuous, recog, uttOpen, restart, isStarted, recState, abortController, aborted,
                   pendingResult, stopEvents, wired, requests, events>>

\* getUserMedia rejects: startMicrophone() rejects; OpenAI start() awaits it
\* and rejects too, AzureSttNode.start() does not await it
GumReject(i) ==
    /\ microQ = <<>>
    /\ calls[i].gum = "pending"
    /\ calls' = IF node \in OpenAINodes
                THEN [calls EXCEPT ![i].gum = "failed", ![i].pc = "done",
                                   ![i].result = "CaptureAcquisitionError"]
                ELSE [calls EXCEPT ![i].gum = "failed"]
    /\ UNCHANGED <<parserVars, recorderVars, pipeVars, node, hasKey, continuous, recog, uttOpen, restart, isStarted, isMicStarted, micPromise, recState,
                   abortController, aborted, pendingResult, microQ, waiters,
                   stopEvents, wired, requests, events>>

\* start() from the settings check to `await this.mediaRecorderResolvers.promise`
StartAfterMic ==
    /\ microQ # <<>>
    /\ Head(microQ).k = "afterMic"
    /\ LET i == Head(microQ).c IN
       IF ~hasKey
       THEN /\ calls' = [calls EXCEPT ![i].pc = "done",
                                      ![i].result = "ConfigurationError"]
            /\ microQ' = Tail(microQ)
            /\ UNCHANGED <<isStarted, waiters>>
       ELSE /\ isStarted' = TRUE
            /\ calls' = [calls EXCEPT ![i].pc = "rec"]
            /\ microQ' = AwaitRecorder(Tail(microQ), "arm", i)
            /\ waiters' = AwaitRecorderW(waiters, "arm", i)
    /\ UNCHANGED <<parserVars, recorderVars, pipeVars, node, hasKey, continuous, recog, uttOpen, restart, isMicStarted, micPromise, recState,
                   abortController, aborted, pendingResult,
                   stopEvents, wired, requests, events>>

\* start() from `this.abortController = new AbortController()` to its end;
\* transcribeOpenAI runs synchronously up to `await fetch(...)`
StartArm ==
    /\ microQ # <<>>
    /\ Head(microQ).k = "arm"
    /\ microQ' = Tail(microQ)
    /\ LET i == Head(microQ).c IN
       /\ abortController' = i
       /\ IF recState = "recording"
          THEN \* mediaRecorder.start(250) throws InvalidStateError
               /\ calls' = [calls EXCEPT ![i].pc = "done",
                                         ![i].result = "InvalidStateError"]
               /\ UNCHANGED <<recState, wired, requests, pipeVars>>
          ELSE /\ recState' = "recording"
               /\ requests' = Append(requests, NewRequest(i, i))
               /\ wired' = Len(requests) + 1
               /\ audioQ' = Append(audioQ, <<>>)
               /\ body' = Append(body, Preamble(node))
               /\ pump' = Append(pump, "piping")
               /\ calls' = [calls EXCEPT ![i].pc = "done", ![i].result = "started"]
    /\ UNCHANGED <<parserVars, recorderVars, node, hasKey, continuous, recog, uttOpen, restart, isStarted, isMicStarted, micPromise, aborted,
                   pendingResult, waiters, stopEvents, events>>

\* onError option of start(): this.transcription$.next("")
OnError(evs, cycle) == Emit(evs, "", cycle)

\* .then((text) => this.transcription$.next(text))
ThenHandler(evs, text, cycle) == Emit(evs, text, cycle)

\* mutant: the catch reaction reports the failure to the listeners as well
CatchHandlerEmits(evs, cycle) == Emit(evs, "", cycle)

\* .catch((err) => console.error(...))
CatchHandler(evs, cycle) == evs

\* ----------------------------------------------------------------- AzureSttNode
\* this.transcriptionPromiseAPI?.resolve(text)
ResolvePending(cs, text) ==
    IF pendingResult # 0 /\ cs[pendingResult].promise = "pending"
    THEN [cs EXCEPT ![pendingResult].promise = "resolved",
                    ![pendingResult].value = text]
    ELSE cs

\* start(), with the synchronous parts of startMicrophone() and
\* beginTranscription() that it runs
AzureStart ==
    /\ node = "azure"
    /\ ~isStarted => Len(calls) < MaxStarts
    /\ IF isStarted
       THEN \* returns the promise of the cycle in progress
            UNCHANGED <<calls, isStarted, pendingResult, abortController,
                        microQ, waiters, events>>
       ELSE IF ~hasKey
       THEN /\ calls' = Append(calls,
                  NewCall("done", "none", "ConfigurationError", "rejected"))
            /\ events' = Append(events, <<>>)
            /\ UNCHANGED <<isStarted, pendingResult, abortController,
                           microQ, waiters>>
       ELSE /\ isStarted' = TRUE
            /\ pendingResult' = Len(calls) + 1
            /\ abortController' = Len(calls) + 1
            /\ calls' = Append(calls,
                  NewCall("rec", IF isMicStarted THEN "none" ELSE "pending",
                          "promise", "pending"))
            /\ microQ' = AwaitRecorder(microQ, "begin", Len(calls) + 1)
            /\ waiters' = AwaitRecorderW(waiters, "begin", Len(calls) + 1)
            /\ events' = Append(events, <<>>)
    /\ UNCHANGED <<parserVars, recorderVars, pipeVars, node, hasKey, continuous, recog, uttOpen, restart, isMicStarted, micPromise, recState, aborted,
                   stopEvents, wired, requests>>

\* beginTranscription() from `mediaRecorder.start()` to `await fetch(...)` inside
\* transcribe(), or through catch and finally when the recorder start throws
BeginTranscription ==
    /\ microQ # <<>>
    /\ Head(microQ).k = "begin"
    /\ microQ' = Tail(microQ)
    /\ LET i == Head(microQ).c IN
       IF recState = "recording"
       THEN /\ events' = Emit(events, "", i)
            /\ calls' = [ResolvePending(calls, "") EXCEPT ![i].pc = "done"]
            /\ isStarted' = FALSE
            /\ pendingResult' = 0
            /\ abortController' = 0
            /\ UNCHANGED <<recState, wired, requests, pipeVars>>
       ELSE /\ recState' = "recording"
            /\ requests' = Append(requests, NewRequest(i, abortController))
            /\ wired' = Len(requests) + 1
            /\ audioQ' = Append(audioQ, <<>>)
            /\ body' = Append(body, Preamble(node))
            /\ pump' = Append(pump, "piping")
            /\ calls' = [calls EXCEPT ![i].pc = "fetch"]
            /\ UNCHANGED <<isStarted, pendingResult, abortController, events>>
    /\ UNCHANGED <<parserVars, recorderVars, node, hasKey, continuous, recog, uttOpen, restart, isMicStarted, micPromise, aborted,
                   waiters, stopEvents>>

\* ------------------------------------------------------------- stop() and abort()
StopsSuspended ==
    Cardinality({k \in DOMAIN microQ : microQ[k].k = "stop"})
    + Cardinality({k \in DOMAIN waiters : waiters[k].k = "stop"})

\* stop() up to `await this.mediaRecorderResolvers.promise`
Stop ==
    /\ node \in NetworkNodes
    /\ isStarted => StopsSuspended < MaxStops
    /\ microQ' = IF isStarted THEN AwaitRecorder(microQ, "stop", 0) ELSE microQ
    /\ waiters' = IF isStarted THEN AwaitRecorderW(waiters, "stop", 0) ELSE waiters
    /\ calls' = ClearCur(calls)
    /\ UNCHANGED <<parserVars, recorderVars, pipeVars, node, hasKey, continuous, recog, uttOpen, restart, isStarted, isMicStarted, micPromise, recState,
                   abortController, aborted, pendingResult, stopEvents, wired,
                   requests, events>>

\* stop() after the await: mr.stop() queues a task that fires "dataavailable"
\* with the audio recorded since the last chunk, then "stop"
StopResume ==
    /\ microQ # <<>>
    /\ Head(microQ).k = "stop"
    /\ microQ' = Tail(microQ)
    /\ IF recState = "recording"
       THEN /\ recState' = "inactive"
            /\ stopEvents' = stopEvents + 1
            /\ stopData' = Append(stopData, [lo |-> sliceFrom, hi |-> Len(audio)])
            /\ sliceFrom' = Len(audio) + 1
       ELSE UNCHANGED <<recState, stopEvents, stopData, sliceFrom>>
    /\ isStarted' = IF node \in OpenAINodes THEN FALSE ELSE isStarted
    /\ UNCHANGED <<parserVars, audio, pipeVars, node, hasKey, continuous, recog, uttOpen, restart, isMicStarted, micPromise, abortController,
                   aborted, pendingResult, calls, waiters, wired, requests, events>>

\* the requests in flight when abort() is called on a started session
MarkCancelled(rs) ==
    [r \in DOMAIN rs |->
        IF isStarted /\ rs[r].status = "pending" /\ rs[r].cancelled = "no"
        THEN [rs[r] EXCEPT !.cancelled =
                 IF recState = "recording" THEN "recording" ELSE "stopped"]
        ELSE rs[r]]

\* abort() on a started session of an OpenAI node: a start() call that is
\* suspended between `this.isStarted = true` and
\* `this.abortController = new AbortController()` is from then on suspended at
\* "recAborted".  AzureSttNode.start() creates the controller before it suspends.
MarkAbortedEarly(cs) ==
    [i \in DOMAIN cs |->
        IF isStarted /\ node \in OpenAINodes /\ cs[i].pc = "rec"
        THEN [cs[i] EXCEPT !.pc = "recAborted"]
        ELSE cs[i]]

Abort ==
    /\ node \in NetworkNodes
    /\ aborted' = IF isStarted /\ abortController # 0
                  THEN aborted \cup {abortController} ELSE aborted
    /\ isStarted' = IF node \in OpenAINodes THEN FALSE ELSE isStarted
    /\ calls' = MarkAbortedEarly(ClearCur(calls))
    /\ requests' = MarkCancelled(requests)
    /\ UNCHANGED <<parserVars, recorderVars, pipeVars, node, hasKey, continuous, recog, uttOpen, restart, isMicStarted, micPromise, recState,
                   abortController, pendingResult, microQ, waiters, stopEvents,
                   wired, events>>

\* ------------------------------------------------------- recorder and network
\* the audio stream of a settled fetch
AudioAfterSettle(q, r) == [q EXCEPT ![r] = <<>>]

\* The body of a settled fetch.  A fetch that failed cancelled its body:
\* enqueue() on it throws, which ends the piping loop, and what it held is gone.
BodyAfterSettle(b, r, outcome) ==
    IF outcome = "ok" THEN b ELSE [b EXCEPT ![r] = <<>>]
PumpAfterSettle(ps, r, outcome) ==
    IF outcome = "ok" THEN ps ELSE [ps EXCEPT ![r] = "failed"]

\* mutant: the piping loop takes an empty audio stream for a finished one
ReadResultEager(q, closed) ==
    IF q # <<>> THEN "value" ELSE "done"

\* `await reader.read()` on an audio stream holding the chunks q
ReadResult(q, closed) ==
    IF q # <<>> THEN "value"
    ELSE IF closed THEN "done"
    ELSE "wait"

\* the piping loop of request r resumes at once when its read reports done
AfterRead(mq, r, q, closed) ==
    IF ReadResult(q, closed) = "done" THEN Append(mq, Cont("epilogue", r)) ELSE mq

\* mediaRecorder.ondataavailable of the transcribe call that assigned the
\* handler last: the OpenAI nodes skip an empty chunk; enqueue() on a closed
\* stream throws
OnDataAvailable(q, chunk) ==
    IF wired = 0 \/ requests[wired].audioClosed THEN q
    ELSE IF node \in OpenAINodes /\ chunk.hi < chunk.lo THEN q
    ELSE [q EXCEPT ![wired] = Append(@, chunk)]

\* The task queued by mr.stop(): "dataavailable", then "stop".
\* mediaRecorder.onstop: audioStreamController.close() of the transcribe call
\* that assigned the handler last; close() of a closed stream throws
RecorderStopEvent ==
    /\ microQ = <<>>
    /\ stopEvents > 0
    /\ stopEvents' = stopEvents - 1
    /\ stopData' = Tail(stopData)
    /\ audioQ' = OnDataAvailable(audioQ, Head(stopData))
    /\ requests' = IF wired # 0
                   THEN [requests EXCEPT ![wired].audioClosed = TRUE]
                   ELSE requests
    /\ microQ' = IF wired # 0 /\ ~requests[wired].audioClosed /\ pump[wired] = "piping"
                 THEN AfterRead(microQ, wired, audioQ'[wired], TRUE)
                 ELSE microQ
    /\ UNCHANGED <<parserVars, audio, sliceFrom, body, pump, node, hasKey, continuous, recog, uttOpen, restart, isStarted, isMicStarted, micPromise, recState,
                   abortController, aborted, pendingResult, calls,
                   waiters, wired, events>>

\* the microphone delivers a sample to the recording recorder
Record ==
    /\ microQ = <<>>
    /\ recState = "recording"
    /\ Len(audio) < MaxSamples
    /\ audio' = Append(audio, wired)
    /\ UNCHANGED <<parserVars, sessionVars, sliceFrom, stopData, pipeVars>>

\* a time slice of mediaRecorder.start(250) ends: "dataavailable" with the
\* audio recorded since the last chunk
DataAvailable ==
    /\ microQ = <<>>
    /\ node \in OpenAINodes
    /\ recState = "recording"
    /\ audioQ' = OnDataAvailable(audioQ, [lo |-> sliceFrom, hi |-> Len(audio)])
    /\ sliceFrom' = Len(audio) + 1
    /\ UNCHANGED <<parserVars, sessionVars, audio, stopData, body, pump>>

\* One turn of the piping loop of request r, from the end of
\* `await value.arrayBuffer()`: enqueue the bytes of the chunk and read again.
\* enqueue() throws when the fetch was aborted, which cancelled the body.
PipeAudio(r) ==
    /\ microQ = <<>>
    /\ pump[r] = "piping"
    /\ audioQ[r] # <<>>
    /\ IF requests[r].ctrl \in aborted
       THEN /\ pump' = [pump EXCEPT ![r] = "failed"]
            /\ UNCHANGED <<body, audioQ, microQ>>
       ELSE /\ body' = [body EXCEPT ![r] = @ \o Bytes(Head(audioQ[r]))]
            /\ audioQ' = [audioQ EXCEPT ![r] = Tail(@)]
            /\ microQ' = AfterRead(microQ, r, Tail(audioQ[r]), requests[r].audioClosed)
            /\ UNCHANGED pump
    /\ UNCHANGED <<parserVars, recorderVars, node, hasKey, isStarted, isMicStarted,
                   micPromise, recState, abortController, aborted, pendingResult,
                   calls, waiters, stopEvents, wired, requests, events, continuous,
                   recog, uttOpen, restart>>

\* the piping loop after its last read: enqueue the epilogue, close the body
SendEpilogue ==
    /\ microQ # <<>>
    /\ Head(microQ).k = "epilogue"
    /\ microQ' = Tail(microQ)
    /\ LET r == Head(microQ).c IN
       IF requests[r].ctrl \in aborted \/ pump[r] # "piping"
       THEN /\ pump' = [pump EXCEPT ![r] = IF @ = "piping" THEN "failed" ELSE @]
            /\ UNCHANGED body
       ELSE /\ body' = [body EXCEPT ![r] = @ \o Epilogue]
            /\ pump' = [pump EXCEPT ![r] = "closed"]
    /\ UNCHANGED <<parserVars, recorderVars, audioQ, node, hasKey, isStarted,
                   isMicStarted, micPromise, recState, abortController, aborted,
                   pendingResult, calls, waiters, stopEvents, wired, requests,
                   events, continuous, recog, uttOpen, restart>>

\* isFinal=false events dispatched so far
DeltaCount ==
    Cardinality(UNION {{<<c, k>> : k \in {j \in DOMAIN events[c] : ~events[c][j].isFinal}} :
                          c \in DOMAIN events})

\* onDelta option of start(): a delta frame read from the response; with
\* `duplex: "half"` the response is there only once the request body is complete
StreamDelta(r) ==
    /\ microQ = <<>>
    /\ node = "streaming"
    /\ requests[r].status = "pending"
    /\ requests[r].ctrl \notin aborted
    /\ pump[r] = "closed"
    /\ DeltaCount < MaxDeltas
    /\ events' = [events EXCEPT ![requests[r].call] =
                                    Append(@, [text |-> "t", isFinal |-> FALSE])]
    /\ UNCHANGED <<parserVars, recorderVars, pipeVars, node, hasKey, continuous, recog, uttOpen, restart, isStarted, isMicStarted, micPromise, recState,
                   abortController, aborted, pendingResult, calls, microQ,
                   waiters, stopEvents, wired, requests>>

\* How a pending fetch can end: an aborted signal rejects it, the server
\* answers 2xx only once the request body is complete
Outcomes(r) ==
    IF requests[r].ctrl \in aborted THEN {"aborted"}
    ELSE {"error"} \cup (IF pump[r] = "closed" THEN {"ok"} ELSE {})

\* A settled fetch: its request body and audio stream are dropped with it
Settled(rs, r, outcome) ==
    [rs EXCEPT ![r].status = outcome, ![r].audioClosed = TRUE]

\* the fetch of transcribeOpenAI / transcribeOpenAIStreaming settles and the
\* reactions registered in start() run
Settle(r, outcome, text) ==
    /\ microQ = <<>>
    /\ node \in OpenAINodes
    /\ requests[r].status = "pending"
    /\ outcome \in Outcomes(r)
    /\ requests' = Settled(requests, r, outcome)
    /\ events' = IF outcome = "ok"
                 THEN ThenHandler(events, text, requests[r].call)
                 ELSE CatchHandler(OnError(events, requests[r].call),
                                   requests[r].call)
    /\ audioQ' = AudioAfterSettle(audioQ, r)
    /\ body' = BodyAfterSettle(body, r, outcome)
    /\ pump' = PumpAfterSettle(pump, r, outcome)
    /\ UNCHANGED <<parserVars, recorderVars, node, hasKey, continuous, recog, uttOpen, restart, isStarted, isMicStarted, micPromise, recState,
                   abortController, aborted, pendingResult, calls, microQ,
                   waiters, stopEvents, wired>>

\* the fetch of transcribe() settles: rest of beginTranscription()
AzureSettle(r, outcome, text) ==
    /\ microQ = <<>>
    /\ node = "azure"
    /\ requests[r].status = "pending"
    /\ outcome \in Outcomes(r)
    /\ requests' = Settled(requests, r, outcome)
    /\ events' = Emit(events, IF outcome = "ok" THEN text ELSE "", requests[r].call)
    /\ calls' = [ResolvePending(calls, IF outcome = "ok" THEN text ELSE "")
                   EXCEPT ![requests[r].call].pc = "done"]
    /\ isStarted' = FALSE
    /\ pendingResult' = 0
    /\ abortController' = 0
    /\ audioQ' = AudioAfterSettle(audioQ, r)
    /\ body' = BodyAfterSettle(body, r, outcome)
    /\ pump' = PumpAfterSettle(pump, r, outcome)
    /\ UNCHANGED <<parserVars, recorderVars, node, hasKey, continuous, recog, uttOpen, restart, isMicStarted, micPromise, recState, aborted,
                   microQ, waiters, stopEvents, wired>>

\* -------------------------------------------------------------------- WebSttNode
\* this.transcriptionPromise?.reject(e.error)
RejectPending(cs) ==
    IF pendingResult # 0 /\ cs[pendingResult].promise = "pending"
    THEN [cs EXCEPT ![pendingResult].promise = "rejected"]
    ELSE cs

\* events dispatched so far
EventCount ==
    Cardinality(UNION {{<<c, k>> : k \in DOMAIN events[c]} : c \in DOMAIN events})

\* start(); initSession() sets isStarted and recognition.continuous;
\* recognition.start() throws InvalidStateError unless the recognizer is idle
WebStart ==
    /\ node = "web"
    /\ IF isStarted
       THEN /\ IF pendingResult = 0
               THEN /\ Len(calls) < MaxStarts
                    /\ calls' = Append(calls, NewCall("done", "none", "promise", "pending"))
                    /\ pendingResult' = Len(calls) + 1
               ELSE UNCHANGED <<calls, pendingResult>>
            /\ UNCHANGED <<isStarted, continuous, recog>>
       ELSE /\ Len(calls) < MaxStarts
            /\ pendingResult' = Len(calls) + 1
            /\ isStarted' = TRUE
            /\ continuous' = TRUE
            /\ IF recog = "idle"
               THEN /\ recog' = "running"
                    /\ calls' = Append(calls, NewCall("done", "none", "promise", "pending"))
               ELSE /\ UNCHANGED recog
                    /\ calls' = Append(calls,
                          NewCall("done", "none", "InvalidStateError", "pending"))
    /\ UNCHANGED <<parserVars, recorderVars, pipeVars, node, hasKey, isMicStarted, micPromise, recState,
                   abortController, aborted, microQ, waiters, stopEvents, wired,
                   requests, events, uttOpen, restart>>

\* stop(): recognition.stop()
WebStop ==
    /\ node = "web"
    /\ continuous' = FALSE
    /\ recog' = IF recog = "running" THEN "stopping" ELSE recog
    /\ UNCHANGED <<parserVars, recorderVars, pipeVars, node, hasKey, isStarted, isMicStarted, micPromise, recState,
                   abortController, aborted, pendingResult, calls, microQ, waiters,
                   stopEvents, wired, requests, events, uttOpen, restart>>

\* abort(): recognition.abort()
WebAbort ==
    /\ node = "web"
    /\ continuous' = FALSE
    /\ recog' = IF recog \in {"running", "stopping"} THEN "aborting" ELSE recog
    /\ UNCHANGED <<parserVars, recorderVars, pipeVars, node, hasKey, isStarted, isMicStarted, micPromise, recState,
                   abortController, aborted, pendingResult, calls, microQ, waiters,
                   stopEvents, wired, requests, events, uttOpen, restart>>

\* recognition.onresult with the latest item interim or final
OnResult(isFinal) ==
    /\ node = "web"
    /\ recog \in {"running", "stopping"}
    /\ EventCount < MaxResults
    /\ events' = IF uttOpen
                 THEN [events EXCEPT ![Len(events)] =
                                        Append(@, [text |-> "t", isFinal |-> isFinal])]
                 ELSE Append(events, <<[text |-> "t", isFinal |-> isFinal]>>)
    /\ uttOpen' = ~isFinal
    /\ calls' = IF isFinal THEN ResolvePending(calls, "t") ELSE calls
    /\ pendingResult' = IF isFinal THEN 0 ELSE pendingResult
    /\ UNCHANGED <<parserVars, recorderVars, pipeVars, node, hasKey, isStarted, isMicStarted, micPromise, recState,
                   abortController, aborted, microQ, waiters, stopEvents, wired,
                   requests, continuous, recog, restart>>

\* mutant: the callbacks restart the session whatever the host asked for
ShouldRestartAlways == TRUE

\* if (this.recognition.continuous)
ShouldRestart == continuous

\* recognition.onerror; with continuous set it runs initSession() and
\* start(), which takes the `if (this.isStarted)` branch: it makes a promise
\* when there is none and does not start the recognizer
OnErrorEvent ==
    /\ node = "web"
    /\ recog \in {"running", "stopping", "aborting"}
    /\ recog' = "errored"
    /\ isStarted' = ShouldRestart
    /\ continuous' = (continuous \/ ShouldRestart)
    /\ IF ShouldRestart /\ pendingResult = 0
       THEN /\ Len(calls) < MaxStarts
            /\ calls' = Append(calls, NewCall("done", "none", "internal", "pending"))
            /\ pendingResult' = Len(calls) + 1
       ELSE /\ calls' = RejectPending(calls)
            /\ UNCHANGED pendingResult
    /\ restart' = IF ShouldRestart
                  THEN [inits |-> 1, starts |-> 0, open |-> TRUE]
                  ELSE NoRestart
    /\ UNCHANGED <<parserVars, recorderVars, pipeVars, node, hasKey, isMicStarted, micPromise, recState,
                   abortController, aborted, microQ, waiters,
                   stopEvents, wired, requests, events, uttOpen>>

\* recognition.onend; with continuous set it runs initSession() and
\* recognition.start()
OnEnd ==
    /\ node = "web"
    /\ recog \in {"running", "stopping", "aborting", "errored"}
    /\ calls' = ResolvePending(calls, "")
    /\ pendingResult' = 0
    /\ isStarted' = ShouldRestart
    /\ continuous' = (continuous \/ ShouldRestart)
    /\ recog' = IF ShouldRestart THEN "running" ELSE "idle"
    /\ uttOpen' = FALSE
    /\ restart' = IF ~restart.open THEN restart
                  ELSE IF ShouldRestart
                  THEN [inits |-> restart.inits + 1, starts |-> restart.starts + 1,
                        open |-> FALSE]
                  ELSE NoRestart
    /\ UNCHANGED <<parserVars, recorderVars, pipeVars, node, hasKey, isMicStarted, micPromise, recState,
                   abortController, aborted, microQ, waiters, stopEvents, wired,
                   requests, events>>

Next ==
    \/ Start
    \/ \E i \in DOMAIN calls : GumResolve(i)
    \/ \E i \in DOMAIN calls : GumReject(i)
    \/ StartAfterMic
    \/ StartArm
    \/ AzureStart
    \/ BeginTranscription
    \/ Stop
    \/ StopResume
    \/ Abort
    \/ RecorderStopEvent
    \/ \E r \in DOMAIN requests : PipeAudio(r)
    \/ SendEpilogue
    \/ \E r \in DOMAIN requests : StreamDelta(r)
    \/ \E r \in DOMAIN requests, o \in {"ok", "error", "aborted"}, t \in Texts :
          Settle(r, o, t)
    \/ \E r \in DOMAIN requests, o \in {"ok", "error", "aborted"}, t \in Texts :
          AzureSettle(r, o, t)
    \/ WebStart
    \/ WebStop
    \/ WebAbort
    \/ \E f \in BOOLEAN : OnResult(f)
    \/ OnErrorEvent
    \/ OnEnd

\* ------------------------------------- transcribeOpenAIStreaming: SSE parse loop
\* Text is a sequence of characters.  A JSON payload is written {Dxyz} for
\* {"type":"transcript.text.delta","delta":"xyz"} and {Fxyz} for
\* {"type":"transcript.text.done","text":"xyz"}.
NL == "\n"
Prefix == <<"d", "a", "t", "a", ":", " ">>
DoneLiteral == <<"[", "D", "O", "N", "E", "]">>
Letters == {"a", "b", "c", "m", "x"}
Whitespace == {" ", "\r"}
FrameKinds == {"deltaA", "deltaB", "done", "sentinel", "malformed", "blank"}

\* the line of each kind, without its terminator
Line(kind) ==
    CASE kind = "deltaA"    -> Prefix \o <<"{", "D", "a", "}">>
      [] kind = "deltaB"    -> Prefix \o <<"{", "D", "b", "c", "}">>
      [] kind = "done"      -> Prefix \o <<"{", "F", "x", "}">>
      [] kind = "sentinel"  -> Prefix \o DoneLiteral
      [] kind = "malformed" -> Prefix \o <<"{", "D", "m">>
      [] kind = "blank"     -> <<>>

\* the text a delta or done line carries
Fragment(kind) ==
    CASE kind = "deltaA" -> <<"a">>
      [] kind = "deltaB" -> <<"b", "c">>
      [] kind = "done"   -> <<"x">>
      [] OTHER -> <<>>

RECURSIVE Body(_, _)
\* the response body: every line is terminated, except the last one when the
\* stream is cut short
Body(fs, terminated) ==
    IF fs = <<>> THEN <<>>
    ELSE IF Len(fs) = 1 /\ ~terminated THEN Line(fs[1])
    ELSE Line(fs[1]) \o <<NL>> \o Body(Tail(fs), terminated)

\* sequences of 1..MaxLines frame kinds, each kind at most once
FrameSeqs ==
    {fs \in UNION {[1..n -> FrameKinds] : n \in 1..MaxLines} :
        \A i, j \in DOMAIN fs : i # j => fs[i] # fs[j]}

RECURSIVE SplitLines(_)
\* buffer.split("\n")
SplitLines(str) ==
    IF \A k \in DOMAIN str : str[k] # NL THEN <<str>>
    ELSE LET k == CHOOSE j \in DOMAIN str :
                      str[j] = NL /\ \A h \in 1..(j - 1) : str[h] # NL
         IN <<SubSeq(str, 1, k - 1)>> \o SplitLines(SubSeq(str, k + 1, Len(str)))

\* mutant: the incomplete trailing line is thrown away
CarryDropped(segs) == <<>>

\* lines.pop() || ""
Carry(segs) == segs[Len(segs)]

\* line.startsWith("data: ")
StartsWithPrefix(line) ==
    Len(line) >= Len(Prefix) /\ SubSeq(line, 1, Len(Prefix)) = Prefix

RECURSIVE Trim(_)
\* data.trim()
Trim(str) ==
    IF str = <<>> THEN str
    ELSE IF str[1] \in Whitespace THEN Trim(Tail(str))
    ELSE IF str[Len(str)] \in Whitespace THEN Trim(SubSeq(str, 1, Len(str) - 1))
    ELSE str

\* JSON.parse(data): ok is FALSE where it throws
JSONParse(data) ==
    LET t == Trim(data) IN
    IF /\ Len(t) >= 3
       /\ t[1] = "{"
       /\ t[Len(t)] = "}"
       /\ t[2] \in {"D", "F"}
       /\ \A k \in 3..(Len(t) - 1) : t[k] \in Letters
    THEN [ok |-> TRUE,
          type |-> IF t[2] = "D" THEN "transcript.text.delta"
                   ELSE "transcript.text.done",
          text |-> SubSeq(t, 3, Len(t) - 1)]
    ELSE [ok |-> FALSE, type |-> "", text |-> <<>>]

RECURSIVE Concat(_)
\* the fragments of a sequence of deltas, joined
Concat(ds) == IF ds = <<>> THEN <<>> ELSE Head(ds) \o Concat(Tail(ds))

\* mutant: the final text is what the deltas received so far add up to
FinalTextFromDeltas(parsed, ds) == Concat(ds)

\* finalText = parsed.text
FinalTextOfDone(parsed, ds) == parsed.text

RECURSIVE ProcessLines(_, _, _)
\* for (const line of lines) { ... }: the deltas emitted and finalText after it
ProcessLines(lines, ds, ft) ==
    IF lines = <<>> THEN [deltas |-> ds, finalText |-> ft]
    ELSE LET line == Head(lines) IN
         IF ~StartsWithPrefix(line) THEN ProcessLines(Tail(lines), ds, ft)
         ELSE LET data == SubSeq(line, Len(Prefix) + 1, Len(line))
                  parsed == JSONParse(data)
              IN IF Trim(data) = DoneLiteral
                 THEN [deltas |-> ds, finalText |-> ft]      \* break
                 ELSE IF ~parsed.ok
                 THEN ProcessLines(Tail(lines), ds, ft)      \* skip malformed JSON
                 ELSE IF parsed.type = "transcript.text.delta"
                 THEN ProcessLines(Tail(lines), Append(ds, parsed.text), ft)
                 ELSE IF parsed.type = "transcript.text.done"
                 THEN ProcessLines(Tail(lines), ds, FinalTextOfDone(parsed, ds))
                 ELSE ProcessLines(Tail(lines), ds, ft)

\* one turn of the read loop with a chunk of n characters
Read(n) ==
    /\ ~returned
    /\ pos + n <= Len(response)
    /\ Cardinality(cuts) < MaxReads
    /\ Cardinality(cuts) = MaxReads - 1 => pos + n = Len(response)
    /\ LET segs == SplitLines(buffer \o SubSeq(response, pos + 1, pos + n))
           out == ProcessLines(SubSeq(segs, 1, Len(segs) - 1), deltas, finalText)
       IN /\ buffer' = Carry(segs)
          /\ deltas' = out.deltas
          /\ finalText' = out.finalText
    /\ pos' = pos + n
    /\ cuts' = cuts \cup {pos + n}
    /\ UNCHANGED <<sessionVars, recorderVars, pipeVars, frames, response, returned>>

\* reader.read() reports done: break, return finalText
ReadDone ==
    /\ ~returned
    /\ pos = Len(response)
    /\ returned' = TRUE
    /\ UNCHANGED <<sessionVars, recorderVars, pipeVars, frames, response, pos, cuts, buffer, deltas, finalText>>

ParserInit ==
    /\ NodeInit({"streaming"})
    /\ hasKey
    /\ \E fs \in FrameSeqs, terminated \in BOOLEAN :
          ParserStart(fs, Body(fs, terminated))

ParserNext ==
    \/ \E n \in 1..(Len(response) - pos) : Read(n)
    \/ ReadDone

ParserSpec == ParserInit /\ [][ParserNext]_vars

\* ------------------------------------------------------------------ properties
\* texts of the isFinal=true events dispatched for cycle c, and how many
Finals(c) == {k \in DOMAIN events[c] : events[c][k].isFinal}
FinalTexts(c) == {events[c][k].text : k \in Finals(c)}

\* C1: start() calls made with no stop()/abort() call in between acquire the
\* microphone at most once and issue at most one transcription request.
C1_StartTwiceOneAcquisition ==
    node \in NetworkNodes =>
        /\ Cardinality({i \in DOMAIN calls :
                calls[i].cur /\ calls[i].gum \in {"pending", "ok"}}) <= 1
        /\ Cardinality({r \in DOMAIN requests : calls[requests[r].call].cur}) <= 1

\* C2: abort() on a started, recording session leaves isStarted false when it
\* returns, and the cycle it hit ends with an isFinal event of empty text.
AbortedCyclesEndEmpty ==
    \A r \in DOMAIN requests :
        (requests[r].cancelled = "recording" /\ requests[r].status # "pending")
            => FinalTexts(requests[r].call) = {""}
C2_AbortLeavesIdle ==
    [][/\ (Abort /\ isStarted /\ recState = "recording") => ~isStarted'
       /\ AbortedCyclesEndEmpty']_vars

\* C3: a start() that fails for a missing credential has made no getUserMedia
\* call, has not started the recorder and has issued no request.
C3_NoSideEffectBeforeConfigError ==
    node \in NetworkNodes =>
        \A i \in DOMAIN calls :
            calls[i].result = "ConfigurationError" =>
                /\ calls[i].gum = "none"
                /\ \A r \in DOMAIN requests : requests[r].call # i

\* C4: when the getUserMedia call of a start() rejects, that start() fails for
\* its caller and leaves nothing behind: no unsettled promise, no cancellation
\* handle, and isStarted is not held by it.
C4_CaptureFailureLeavesIdle ==
    [][\A i \in DOMAIN calls :
          (calls[i].gum = "pending" /\ calls'[i].gum = "failed") =>
              /\ calls'[i].result = "CaptureAcquisitionError"
              /\ calls'[i].promise # "pending"
              /\ pendingResult' # i
              /\ isStarted' => \E j \in DOMAIN calls \ {i} :
                                  calls'[j].pc = "rec" \/ calls'[j].result = "started"
      ]_vars

\* C5: a cycle whose request has ended has exactly one isFinal=true event, and
\* that event's text is empty when the request ended by error or abort.
C5_OneTerminalEventPerCycle ==
    node \in NetworkNodes =>
        \A r \in DOMAIN requests :
            requests[r].status # "pending" =>
                /\ Cardinality(Finals(requests[r].call)) = 1
                /\ requests[r].status \in {"error", "aborted"}
                      => FinalTexts(requests[r].call) = {""}

\* C5 witness: one cycle has ended by success with its text and another by abort
C5_Witness ==
    /\ \E r \in DOMAIN requests :
          requests[r].status = "ok" /\ FinalTexts(requests[r].call) = {"t"}
    /\ \E r \in DOMAIN requests :
          requests[r].status = "aborted" /\ FinalTexts(requests[r].call) = {""}

\* C6: the part of stop() that stops the recorder leaves a started session
\* started while its request is pending.
C6_StopKeepsStarted ==
    [][(/\ StopResume
        /\ isStarted
        /\ \E r \in DOMAIN requests : requests[r].status = "pending")
          => isStarted']_vars

\* C7: at most one request of the instance is unfinished at any time.
C7_OneCycleInFlight ==
    Cardinality({r \in DOMAIN requests : requests[r].status = "pending"}) <= 1

\* C8: a start() of a network-backed node fails for its caller only with a
\* missing credential or a failed capture acquisition.
C8_OnlyConfigAndCaptureVisible ==
    node \in NetworkNodes =>
        \A i \in DOMAIN calls :
            calls[i].result \in {"pending", "started", "promise",
                                 "ConfigurationError", "CaptureAcquisitionError"}

\* C9: the promise start() returns for a cycle (WebSttNode, AzureSttNode) is
\* pending or resolved, never rejected; when resolved after an error, abort or
\* end without result its value is the empty string.
C9_PendingResultNeverRejected ==
    node \in {"web", "azure"} =>
        \A i \in DOMAIN calls :
            calls[i].result # "ConfigurationError" =>
                calls[i].promise \in {"none", "pending", "resolved"}

\* where line i of the response starts and where its terminator is
RECURSIVE LineStart(_)
LineStart(i) == IF i = 1 THEN 1 ELSE LineStart(i - 1) + Len(Line(frames[i - 1])) + 1
LineEnd(i) == LineStart(i) + Len(Line(frames[i]))
DeltaLines == {i \in DOMAIN frames : frames[i] \in {"deltaA", "deltaB"}}
\* reads that ended inside line i, after its first character and before its terminator
CutsInside(i) == {c \in cuts : LineStart(i) <= c /\ c < LineEnd(i)}
Emitted(i) == {k \in DOMAIN deltas : deltas[k] = Fragment(frames[i])}

\* C10: no delta of a line is emitted before the line's terminator has been
\* read; a data line split across reads has its delta emitted exactly once,
\* with the whole fragment, once the terminator has been read; deltas are
\* emitted in the order of their lines.
C10_SplitLineEmittedOnce ==
    /\ \A i \in DeltaLines :
          /\ pos < LineEnd(i) => Emitted(i) = {}
          /\ (CutsInside(i) # {} /\ pos >= LineEnd(i)) => Cardinality(Emitted(i)) = 1
    /\ \A k \in DOMAIN deltas : \E i \in DeltaLines : k \in Emitted(i)
    /\ \A i, j \in DeltaLines : \A k \in Emitted(i), l \in Emitted(j) :
          i < j => k < l

\* C10 witness: a delta line arrived in three reads and its delta was emitted
C10_Witness ==
    \E i \in DeltaLines :
        /\ Cardinality(CutsInside(i)) >= 2
        /\ pos >= LineEnd(i)
        /\ Cardinality(Emitted(i)) = 1

DoneLines == {i \in DOMAIN frames : frames[i] = "done"}
SentinelLines == {i \in DOMAIN frames : frames[i] = "sentinel"}
\* a read ended between the terminators of lines j and i: they were handled by
\* different turns of the read loop
ReadBetween(j, i) == \E c \in cuts : LineEnd(j) <= c /\ c < LineEnd(i)
\* line i has gone through the body of the `for` loop: its terminator was read
\* and no [DONE] line of the same read came before it
Processed(i) ==
    /\ pos >= LineEnd(i)
    /\ \A j \in SentinelLines : j < i => ReadBetween(j, i)

\* C11: once a transcript.text.done frame has been processed, the final text is
\* the text of that frame, whatever the deltas before it added up to; while no
\* done frame has been processed the final text is the empty string.
C11_DoneFrameSetsFinalText ==
    finalText = IF \E i \in DoneLines : Processed(i)
                THEN Fragment("done") ELSE <<>>

\* C11 witness: the loop returned the text of a done frame after emitting a
\* delta with another text
C11_Witness ==
    /\ returned
    /\ \E i \in DoneLines : Processed(i)
    /\ deltas # <<>>
    /\ Concat(deltas) # finalText
    /\ finalText = Fragment("done")

\* C12: a frame that follows a [DONE] frame in the response emits no delta and
\* does not change the final text.
C12_NothingAfterDoneSentinel ==
    /\ \A i \in DeltaLines :
          (\E j \in SentinelLines : j < i) => Emitted(i) = {}
    /\ \A i \in DoneLines :
          (\E j \in SentinelLines : j < i) => finalText = <<>>

\* the cycle of start() call c (WebSttNode: utterance c) is over
CycleOver(c) ==
    IF node = "web" THEN c < Len(events) \/ ~uttOpen
    ELSE \E r \in DOMAIN requests :
            requests[r].call = c /\ requests[r].status # "pending"

\* C15: the events of a cycle or utterance of the delta-capable nodes are
\* isFinal=false events followed by one isFinal=true event: a final event is
\* the last event of its cycle, and a cycle that is over has one.
C15_DeltasThenOneFinal ==
    node \in {"streaming", "web"} =>
        \A c \in DOMAIN events :
            /\ Finals(c) \subseteq {Len(events[c])}
            /\ CycleOver(c) => Cardinality(Finals(c)) = 1

\* C16: after an abort() call on a started session, the cycle of a request that
\* was in flight at that call gets no other event than one isFinal=true event
\* with empty text, and an aborting recognizer delivers no event.
C16_OnlyEmptyFinalAfterAbort ==
    [][/\ \A r \in DOMAIN requests :
             requests[r].cancelled # "no" =>
                 LET c == requests[r].call IN
                 \/ events'[c] = events[c]
                 \/ /\ events'[c] = Append(events[c], [text |-> "", isFinal |-> TRUE])
                    /\ Finals(c) = {}
       /\ (node = "web" /\ recog = "aborting") => events' = events
      ]_vars

\* C17: a recognizer error received while continuous is set, once the
\* recognizer's "end" has followed it with continuous still set, has led to one
\* initSession() call and one recognition.start() call, and the session is
\* started with the recognizer running.
C17_OneReinitOneStart ==
    (node = "web" /\ restart.inits > 0) =>
        /\ restart.inits = 1
        /\ ~restart.open => restart.starts = 1

\* C18: while continuous is off (from an explicit stop() or abort() until the
\* host's next start() runs initSession()), the recognizer's error and end
\* callbacks do not re-initialize the session and do not start the recognizer.
C18_NoRestartAfterExplicitStop ==
    [][(node = "web" /\ ~continuous /\ (OnErrorEvent \/ OnEnd)) =>
          /\ ~isStarted'
          /\ ~continuous'
          /\ recog' \in {"errored", "idle"}
          /\ restart' \in {restart, NoRestart}
      ]_vars

\* C18 witness: after a stop() or abort() the error callback has left the
\* session stopped, and the end callback is still to come
C18_Witness ==
    /\ node = "web"
    /\ calls # <<>>
    /\ ~continuous
    /\ recog = "errored"
    /\ ~isStarted

\* every request has ended and no start() call is under way
AllCyclesEnded ==
    /\ requests # <<>>
    /\ \A r \in DOMAIN requests : requests[r].status # "pending"
    /\ \A i \in DOMAIN calls : calls[i].pc = "done"

\* C19: once the cycles of a network-backed node have ended, by completion,
\* stop(), abort() or error, isStarted is false and abortController is null.
C19_TornDownAfterCycle ==
    (node \in NetworkNodes /\ AllCyclesEnded) =>
        /\ ~isStarted
        /\ abortController = 0

\* C20: stop() does not abort any controller; and once the recorder has
\* delivered every stop event, a pending request whose recording was stopped
\* has its audio stream closed.
C20_StopClosesItsCycle ==
    [][/\ (Stop \/ StopResume) => aborted' = aborted
       /\ (node \in NetworkNodes /\ stopEvents' = 0) =>
             \A r \in DOMAIN requests' :
                 (/\ requests'[r].status = "pending"
                  /\ ~(recState' = "recording" /\ wired' = r))
                     => requests'[r].audioClosed
      ]_vars

\* C21: when a network-backed session is idle after its cycles have ended
\* (isStarted false, every request settled, no start() under way, no
\* continuation or recorder event outstanding), the cached recorder is not
\* recording, so the recorder start of the next start() succeeds.
C21_IdleRecorderNotRecording ==
    (/\ node \in NetworkNodes
     /\ ~isStarted
     /\ AllCyclesEnded
     /\ microQ = <<>>
     /\ stopEvents = 0) => recState # "recording"

\* C22: when a start() of an OpenAI node resumes after abort() was called
\* while it was suspended between `this.isStarted = true` and the arming of
\* its AbortController, a request it issues is cancelled, and it does not
\* start the recorder of a session that abort() left idle.
C22_AbortBeforeArmCancels ==
    [][\A i \in DOMAIN calls :
          (calls[i].pc = "recAborted" /\ calls'[i].pc = "done") =>
              /\ \A r \in DOMAIN requests' :
                    (r \notin DOMAIN requests /\ requests'[r].call = i)
                        => requests'[r].ctrl \in aborted'
              /\ ~isStarted' => recState' = recState
      ]_vars

\* what the parse loop yields when the whole response arrives in one read
OneRead ==
    LET segs == SplitLines(response)
    IN ProcessLines(SubSeq(segs, 1, Len(segs) - 1), <<>>, <<>>)

\* C23: whatever the division of the response into reads, the loop returns
\* with the deltas and the final text it yields when the whole response
\* arrives in one read; so any two divisions give the same result.
C23_ResultIndependentOfReads ==
    returned =>
        /\ deltas = OneRead.deltas
        /\ finalText = OneRead.finalText

\* the samples recorded for request r, in the order they were taken
SamplesOf(r) ==
    SelectSeq([k \in 1..Len(audio) |-> k], LAMBDA k : audio[k] = r)
AudioBytes(ks) == [k \in 1..Len(ks) |-> AudioByte(ks[k])]

\* C13: a request body holds no audio of another cycle, and the finished body
\* of a cycle whose recording has been stopped is the preamble, then the
\* samples recorded for that cycle, each once and in order, then the closing
\* boundary.
C13_BodyIsFieldsThenChunks ==
    \A r \in DOMAIN requests :
        /\ \A k \in DOMAIN body[r] :
              body[r][k].part = "audio" => audio[body[r][k].sample] = r
        /\ (pump[r] = "closed" /\ ~(recState = "recording" /\ wired = r)) =>
              body[r] = Preamble(node) \o AudioBytes(SamplesOf(r)) \o Epilogue

\* positions of the parts of each kind in the body of request r
PartsAt(r, kind) == {k \in DOMAIN body[r] : body[r][k].part = kind}

\* C14: as long as a request body is kept, it starts with the whole preamble,
\* audio bytes come only after it, the closing boundary is its last part and is
\* there exactly when the body is closed, and then the audio stream had been
\* closed; once the body is closed nothing more is enqueued to it.
C14_BodyShape ==
    \A r \in DOMAIN requests :
        body[r] # <<>> =>
            /\ Len(body[r]) >= Len(Preamble(node))
            /\ SubSeq(body[r], 1, Len(Preamble(node))) = Preamble(node)
            /\ PartsAt(r, "field") = 1..Len(Preamble(node))
            /\ PartsAt(r, "closing") =
                  IF pump[r] = "closed" THEN {Len(body[r])} ELSE {}
            /\ pump[r] = "closed" => requests[r].audioClosed
C14_PreambleAudioEpilogue ==
    [][/\ C14_BodyShape'
       /\ \A r \in DOMAIN requests :
             pump[r] = "closed" => (body'[r] = body[r] \/ body'[r] = <<>>)
      ]_vars

\* C14 witness: a closed body holds the preamble, two bytes of audio and the
\* closing boundary
C14_Witness ==
    \E r \in DOMAIN requests :
        /\ pump[r] = "closed"
        /\ Cardinality(PartsAt(r, "audio")) >= 2
        /\ body[r] = Preamble(node) \o AudioBytes(SamplesOf(r)) \o Epilogue

\* The network nodes with the audio they record, from the end of a
\* startMicrophone() call the host made after construction: the microphone
\* is acquired and the recorder is cached.
AudioInit ==
    /\ node \in AudioNodes
    /\ hasKey = TRUE
    /\ isStarted = FALSE
    /\ isMicStarted = TRUE
    /\ micPromise = "resolved"
    /\ recState = "inactive"
    /\ abortController = 0
    /\ aborted = {}
    /\ pendingResult = 0
    /\ calls = <<>>
    /\ microQ = <<>>
    /\ waiters = <<>>
    /\ stopEvents = 0
    /\ wired = 0
    /\ requests = <<>>
    /\ events = <<>>
    /\ continuous = FALSE
    /\ recog = "idle"
    /\ uttOpen = FALSE
    /\ restart = NoRestart
    /\ audio = <<>>
    /\ sliceFrom = 1
    /\ stopData = <<>>
    /\ audioQ = <<>>
    /\ body = <<>>
    /\ pump = <<>>
    /\ ParserStart(<<>>, <<>>)

AudioNext ==
    \/ Start
    \/ StartAfterMic
    \/ StartArm
    \/ AzureStart
    \/ BeginTranscription
    \/ Stop
    \/ StopResume
    \/ Abort
    \/ Record
    \/ DataAvailable
    \/ RecorderStopEvent
    \/ \E r \in DOMAIN requests : PipeAudio(r)
    \/ SendEpilogue
    \/ \E r \in DOMAIN requests, o \in {"ok", "error", "aborted"} : Settle(r, o, "t")
    \/ \E r \in DOMAIN requests, o \in {"ok", "error", "aborted"} : AzureSettle(r, o, "t")

AudioSpec == AudioInit /\ [][AudioNext]_vars

Spec == Init /\ [][Next]_vars
====
